---------------------------- MODULE Spec2Model ----------------------------
(***************************************************************************)
(* A model of viterbi.py: the ViterbiAligner grid, the paths that the      *)
(* sweep of align() deposits in its cells, and the queries over them.      *)
(*                                                                         *)
(* Cells are named by their coordinates <<row, col>> (0-based, as in the   *)
(* source); a path's list of cell references is a sequence of coordinates. *)
(* Scores are fixed-point numbers in thousandths: ln(1) = 0 and            *)
(* ln(0.5) = -0.693.  Under default scoring every path score is a          *)
(* left-to-right sum of copies of ln(0.5) and of 0.0, hence the same float *)
(* for the same number of indel moves, so the integers order and compare   *)
(* exactly as the floats do.                                               *)
(*                                                                         *)
(* The lifecycle is the constructor's: initialize_grid() once, then        *)
(* align() once, then any queries.  align() is split at its loop           *)
(* iterations: one step seeds the origin, one step visits one cell.        *)
(***************************************************************************)
EXTENDS Integers, Sequences, FiniteSets, TLC

\* ------------------------------------------------------------------ bounds

\* Longest input sequence.
MaxLen == 2
\* Most query calls made on the finished grid.
MaxQueries == 2

\* ------------------------------------------------------------------ inputs

\* The tokens of the input sequences.
Alphabet == {"a", "b"}

\* Python's None: the element of a cell past the end of a sequence, and the
\* key of "nothing consumed" in a scoring table.
NULL == "None"

RECURSIVE SeqsUpTo(_)
SeqsUpTo(n) ==
    IF n = 0 THEN {<<>>}
    ELSE LET shorter == SeqsUpTo(n - 1)
         IN  shorter \cup {Append(s, x) : s \in {t \in shorter : Len(t) = n - 1},
                                           x \in Alphabet}

\* alignment_scores is None (<<>>) or a two-level dict (<<table>>).
NoTable == <<>>

\* {"a": {"a": 1}}: no key for any other pair, none for an indel.
TableOnlyAA == << "a" :> ("a" :> 1) >>

\* An edit-distance table: every pair and every indel has an entry.
TableEdit ==
    << ("a" :> ("a" :> 0 @@ "b" :> 2 @@ NULL :> 1)) @@
       ("b" :> ("a" :> 2 @@ "b" :> 0 @@ NULL :> 1)) @@
       (NULL :> ("a" :> 1 @@ "b" :> 1)) >>

\* A partial table: "b" cannot be deleted or inserted, "b" never aligns to "a".
TablePartial ==
    << ("a" :> ("a" :> 3 @@ "b" :> 1 @@ NULL :> 1)) @@
       ("b" :> ("b" :> 3)) @@
       (NULL :> ("a" :> 2)) >>

Tables == {NoTable, TableOnlyAA, TableEdit, TablePartial}

\* ---------------------------------------------------------- module globals

LOG_SCALED == TRUE

\* log() on the two arguments the module gives it, in thousandths.
Log(x) == CASE x = 1000 -> 0
            [] x = 500  -> -693

DEFAULT_GOOD_SCORE == IF LOG_SCALED THEN Log(1000) ELSE 1000

DEFAULT_BAD_SCORE == IF LOG_SCALED THEN Log(500) ELSE 500

\* A faulty variant of DEFAULT_SCORE_COMBINATION: the product of linear mode
\* kept in log mode.
CombinationByProduct(x, y) == (x * y) \div 1000

DEFAULT_SCORE_COMBINATION(x, y) ==
    IF LOG_SCALED THEN x + y ELSE (x * y) \div 1000

\* -------------------------------------------------------------------- state

VARIABLES
    a,                  \* ViterbiAligner.a
    b,                  \* ViterbiAligner.b
    alignment_scores,   \* ViterbiAligner.alignment_scores
    scores_are_costs,   \* ViterbiAligner.scores_are_costs
    grid,               \* ViterbiAligner.grid: rows of cells; <<>> before initialize_grid()
    pc,                 \* "new", "ready", "sweep" (inside align()), "done"
    row_idx,            \* align()'s outer loop variable
    col_idx,            \* align()'s inner loop variable
    visited,            \* history: the cells align() has visited, in order
    result,             \* the list the last query returned
    last_call,          \* the last query: its name and the cell it read
    n_queries           \* queries made so far

vars == <<a, b, alignment_scores, scores_are_costs, grid, pc, row_idx, col_idx,
          visited, result, last_call, n_queries>>

\* ------------------------------------------------------------- ViterbiCell

\* seq[idx] with Python's IndexError turned into None.
ElementAt(seq, idx) == IF idx < Len(seq) THEN seq[idx + 1] ELSE NULL

ViterbiCell(r, c, seq_a, seq_b) ==
    [row_idx   |-> r,
     col_idx   |-> c,
     a_element |-> ElementAt(seq_a, r),
     b_element |-> ElementAt(seq_b, c),
     paths     |-> <<>>]

ViterbiPath(cells, score) == [cells |-> cells, score |-> score]

\* grid[r][c] of the source.
CellAt(g, r, c) == g[r + 1][c + 1]

InGrid(g, r, c) == r >= 0 /\ r < Len(g) /\ c >= 0 /\ c < Len(g[r + 1])

\* The coordinates of the grid's cells.
Coords(g) ==
    IF g = <<>> THEN {}
    ELSE {<<r, c>> : r \in 0..(Len(g) - 1), c \in 0..(Len(g[1]) - 1)}

\* cmp(x.score, y.score) < 0 under the direction of the sort: x goes before y.
Before(x, y, reverse) ==
    IF reverse THEN x.score > y.score ELSE x.score < y.score

\* list.sort(cmp=..., reverse=...): a stable sort; with reverse=True equal
\* elements keep their original order too.
RECURSIVE ListSort(_, _)
ListSort(paths, reverse) ==
    IF paths = <<>> THEN <<>>
    ELSE LET n    == Len(paths)
             head == ListSort(SubSeq(paths, 1, n - 1), reverse)
             p    == paths[n]
             k    == Cardinality({i \in 1..Len(head) : ~Before(p, head[i], reverse)})
         IN  SubSeq(head, 1, k) \o <<p>> \o SubSeq(head, k + 1, Len(head))

\* A faulty variant of SortedPaths: the two directions swapped.
SortedPathsSwapped(paths, costs) ==
    IF costs THEN ListSort(paths, TRUE) ELSE ListSort(paths, FALSE)

\* The cell's list after get_best_paths() has sorted it in place.
SortedPaths(paths, costs) ==
    IF costs THEN ListSort(paths, FALSE) ELSE ListSort(paths, TRUE)

\* A faulty variant of BestPathIdx: the loop never advances, so only the first
\* of the sorted paths is returned.
BestPathIdxFirstOnly(paths, best_score, path_idx) == path_idx

\* The search loop of get_best_paths(): path_idx when it breaks.
RECURSIVE BestPathIdx(_, _, _)
BestPathIdx(paths, best_score, path_idx) ==
    IF path_idx >= Len(paths) THEN path_idx
    ELSE IF paths[path_idx + 1].score # best_score THEN path_idx
    ELSE BestPathIdx(paths, best_score, path_idx + 1)

\* ViterbiCell.get_best_paths(): the list it leaves in the cell and the list
\* it returns.
CellBestPaths(paths, costs) ==
    IF Len(paths) = 0 THEN [paths |-> paths, returned |-> <<>>]
    ELSE LET sorted == SortedPaths(paths, costs)
             idx    == BestPathIdx(sorted, sorted[1].score, 1)
         IN  [paths |-> sorted, returned |-> SubSeq(sorted, 1, idx)]

\* ------------------------------------------------------------- ViterbiPath

\* ViterbiPath.get_coordinates(): the coordinates of the path's cells.
PathCoordinates(g, path) ==
    [i \in 1..Len(path.cells) |->
        LET cell == CellAt(g, path.cells[i][1], path.cells[i][2])
        IN  <<cell.row_idx, cell.col_idx>>]

\* A faulty variant of PathElements: the elements are read from the cell the
\* transition enters.
PathElementsOfNextCell(g, path) ==
    [i \in 1..(Len(path.cells) - 1) |->
        LET this_cell == CellAt(g, path.cells[i][1], path.cells[i][2])
            next_cell == CellAt(g, path.cells[i + 1][1], path.cells[i + 1][2])
        IN  << IF this_cell.row_idx # next_cell.row_idx
                 THEN next_cell.a_element ELSE NULL,
               IF this_cell.col_idx # next_cell.col_idx
                 THEN next_cell.b_element ELSE NULL >>]

\* ViterbiPath.get_elements(): one pair per transition.
PathElements(g, path) ==
    [i \in 1..(Len(path.cells) - 1) |->
        LET this_cell == CellAt(g, path.cells[i][1], path.cells[i][2])
            next_cell == CellAt(g, path.cells[i + 1][1], path.cells[i + 1][2])
        IN  << IF this_cell.row_idx # next_cell.row_idx
                 THEN this_cell.a_element ELSE NULL,
               IF this_cell.col_idx # next_cell.col_idx
                 THEN this_cell.b_element ELSE NULL >>]

\* ----------------------------------------------------------- ViterbiAligner

\* initialize_grid(): len(a)+1 rows of len(b)+1 cells.
NewGrid(seq_a, seq_b) ==
    [r \in 1..(Len(seq_a) + 1) |->
        [c \in 1..(Len(seq_b) + 1) |-> ViterbiCell(r - 1, c - 1, seq_a, seq_b)]]

\* The three moves, in the order align() tries them.
MoveKinds == <<"delete", "diag", "insert">>

\* delete_cell, diag_cell, insert_cell of the cell at (r, c): the neighbour's
\* coordinates, or <<>> where the source catches IndexError and keeps None.
NextCell(g, r, c, kind) ==
    LET t == CASE kind = "delete" -> <<r + 1, c>>
               [] kind = "diag"   -> <<r + 1, c + 1>>
               [] kind = "insert" -> <<r, c + 1>>
    IN  IF InGrid(g, t[1], t[2]) THEN t ELSE <<>>

\* (a_next_element, b_next_element) of a move out of `cell`.
MoveKeys(cell, kind) ==
    CASE kind = "delete" -> <<cell.a_element, NULL>>
      [] kind = "diag"   -> <<cell.a_element, cell.b_element>>
      [] kind = "insert" -> <<NULL, cell.b_element>>

\* Whether alignment_scores[ka][kb] exists (no KeyError).
HasKey(scores, ka, kb) ==
    /\ ka \in DOMAIN scores[1]
    /\ kb \in DOMAIN scores[1][ka]

\* move_score of a move out of `cell`: <<score>>, or <<>> when the table has
\* no entry (KeyError: the move is skipped).
MoveScore(cell, kind, scores) ==
    IF scores = NoTable
    THEN << IF kind = "diag" THEN DEFAULT_GOOD_SCORE ELSE DEFAULT_BAD_SCORE >>
    ELSE LET k == MoveKeys(cell, kind)
         IN  IF HasKey(scores, k[1], k[2]) THEN << scores[1][k[1]][k[2]] >> ELSE <<>>

\* A faulty variant of OneMove: the new path holds the neighbour alone, not
\* the cells so far followed by it.
OneMoveWithoutPrefix(g, cell, path, kind, scores) ==
    LET t == NextCell(g, cell.row_idx, cell.col_idx, kind)
    IN  IF t = <<>> THEN <<>>
        ELSE LET ms == MoveScore(cell, kind, scores)
             IN  IF ms = <<>> THEN <<>>
                 ELSE << [target |-> t,
                          path   |-> ViterbiPath(<<t>>,
                                       DEFAULT_SCORE_COMBINATION(path.score, ms[1]))] >>

\* One pass of the body of "for next_cell in [...]": the path appended and
\* the cell it is appended to, or nothing.
OneMove(g, cell, path, kind, scores) ==
    LET t == NextCell(g, cell.row_idx, cell.col_idx, kind)
    IN  IF t = <<>> THEN <<>>
        ELSE LET ms == MoveScore(cell, kind, scores)
             IN  IF ms = <<>> THEN <<>>
                 ELSE << [target |-> t,
                          path   |-> ViterbiPath(Append(path.cells, t),
                                       DEFAULT_SCORE_COMBINATION(path.score, ms[1]))] >>

\* Whether the move exists in the grid and the table has no entry for it.
KeyMissing(g, cell, kind, scores) ==
    /\ NextCell(g, cell.row_idx, cell.col_idx, kind) # <<>>
    /\ MoveScore(cell, kind, scores) = <<>>

\* A faulty variant of PathMoves: a missing key ends the loop over the
\* neighbours (break) instead of skipping the one move (continue).
PathMovesBreakOnMissingKey(g, cell, path, scores) ==
    IF KeyMissing(g, cell, MoveKinds[1], scores) THEN <<>>
    ELSE OneMove(g, cell, path, MoveKinds[1], scores) \o
         (IF KeyMissing(g, cell, MoveKinds[2], scores) THEN <<>>
          ELSE OneMove(g, cell, path, MoveKinds[2], scores) \o
               OneMove(g, cell, path, MoveKinds[3], scores))

\* The appends that one path of the visited cell causes, in order.
PathMoves(g, cell, path, scores) ==
    OneMove(g, cell, path, MoveKinds[1], scores)
      \o OneMove(g, cell, path, MoveKinds[2], scores)
      \o OneMove(g, cell, path, MoveKinds[3], scores)

\* A faulty variant of CellMoves: only one path of the cell is extended, as
\* in a decoder that keeps a single path per cell.
CellMovesOfOnePath(g, cell, scores, i) ==
    IF i > Len(cell.paths) THEN <<>>
    ELSE OneMove(g, cell, cell.paths[i], MoveKinds[1], scores)
           \o OneMove(g, cell, cell.paths[i], MoveKinds[2], scores)
           \o OneMove(g, cell, cell.paths[i], MoveKinds[3], scores)

\* The appends of "for path in cell.paths", in order, from the i-th path on.
RECURSIVE CellMoves(_, _, _, _)
CellMoves(g, cell, scores, i) ==
    IF i > Len(cell.paths) THEN <<>>
    ELSE PathMoves(g, cell, cell.paths[i], scores) \o CellMoves(g, cell, scores, i + 1)

\* The paths that `moves` append to the cell at `coord`, in order.
PathsTo(moves, coord) ==
    LET sel == SelectSeq(moves, LAMBDA m : m.target = coord)
    IN  [i \in 1..Len(sel) |-> sel[i].path]

\* The grid after the appends `moves`.
Deposit(g, moves) ==
    [r \in 1..Len(g) |->
        [c \in 1..Len(g[r]) |->
            [g[r][c] EXCEPT !.paths = @ \o PathsTo(moves, <<r - 1, c - 1>>)]]]

\* A faulty variant of NextVisit: the two loops nested the other way round
\* (column by column).
NextVisitColumnMajor(g, r, c) ==
    IF r + 1 < Len(g) THEN <<r + 1, c>>
    ELSE IF c + 1 < Len(g[1]) THEN <<0, c + 1>>
    ELSE <<>>

\* The loop variables after the visit of (r, c): the next cell of the two
\* nested range() loops, or <<>> when both are exhausted.
NextVisit(g, r, c) ==
    IF c + 1 < Len(g[r + 1]) THEN <<r, c + 1>>
    ELSE IF r + 1 < Len(g) THEN <<r + 1, 0>>
    ELSE <<>>

\* grid[-1][-1]
LastCell(g) == <<Len(g) - 1, Len(g[Len(g)]) - 1>>

\* ------------------------------------------------------------------ actions

Init ==
    /\ a \in SeqsUpTo(MaxLen)
    /\ b \in SeqsUpTo(MaxLen)
    /\ alignment_scores \in Tables
    /\ scores_are_costs \in BOOLEAN
    /\ grid = <<>>
    /\ pc = "new"
    /\ row_idx = 0
    /\ col_idx = 0
    /\ visited = <<>>
    /\ result = <<>>
    /\ last_call = [op |-> "none", cell |-> <<0, 0>>]
    /\ n_queries = 0

\* ViterbiAligner.initialize_grid()
InitializeGrid ==
    /\ pc = "new"
    /\ grid' = NewGrid(a, b)
    /\ pc' = "ready"
    /\ UNCHANGED <<a, b, alignment_scores, scores_are_costs, row_idx, col_idx,
                   visited, result, last_call, n_queries>>

\* align(), up to its loops: the origin gets the start path.
AlignSeed ==
    /\ pc = "ready"
    /\ grid' = [grid EXCEPT ![1][1].paths =
                   Append(@, ViterbiPath(<< <<0, 0>> >>, DEFAULT_GOOD_SCORE))]
    /\ row_idx' = 0
    /\ col_idx' = 0
    /\ pc' = "sweep"
    /\ UNCHANGED <<a, b, alignment_scores, scores_are_costs, visited, result,
                   last_call, n_queries>>

\* align(): one iteration of the inner loop, the visit of grid[row_idx][col_idx].
AlignVisit ==
    /\ pc = "sweep"
    /\ LET cell == CellAt(grid, row_idx, col_idx)
           next == NextVisit(grid, row_idx, col_idx)
       IN  /\ grid' = Deposit(grid, CellMoves(grid, cell, alignment_scores, 1))
           /\ visited' = Append(visited, <<row_idx, col_idx>>)
           /\ IF next = <<>>
                THEN pc' = "done" /\ UNCHANGED <<row_idx, col_idx>>
                ELSE pc' = "sweep" /\ row_idx' = next[1] /\ col_idx' = next[2]
    /\ UNCHANGED <<a, b, alignment_scores, scores_are_costs, result, last_call,
                   n_queries>>

\* ViterbiAligner.get_all_paths()
GetAllPaths ==
    /\ pc = "done"
    /\ n_queries < MaxQueries
    /\ LET last_cell == LastCell(grid)
       IN  /\ result' = CellAt(grid, last_cell[1], last_cell[2]).paths
           /\ last_call' = [op |-> "get_all_paths", cell |-> last_cell]
    /\ n_queries' = n_queries + 1
    /\ UNCHANGED <<a, b, alignment_scores, scores_are_costs, grid, pc, row_idx,
                   col_idx, visited>>

\* ViterbiAligner.get_best_paths(): get_best_paths() of the last cell, which
\* sorts the cell's list in place.
GetBestPaths ==
    /\ pc = "done"
    /\ n_queries < MaxQueries
    /\ LET last_cell == LastCell(grid)
           best == CellBestPaths(CellAt(grid, last_cell[1], last_cell[2]).paths,
                                 scores_are_costs)
       IN  /\ grid' = [grid EXCEPT ![last_cell[1] + 1][last_cell[2] + 1].paths = best.paths]
           /\ result' = best.returned
           /\ last_call' = [op |-> "get_best_paths", cell |-> last_cell]
    /\ n_queries' = n_queries + 1
    /\ UNCHANGED <<a, b, alignment_scores, scores_are_costs, pc, row_idx,
                   col_idx, visited>>

Next ==
    \/ InitializeGrid
    \/ AlignSeed
    \/ AlignVisit
    \/ GetAllPaths
    \/ GetBestPaths

Spec == Init /\ [][Next]_vars

\* ------------------------------------------------- definitions of the claims

\* Whether the last query was a get_best_paths().
LastWasBest == last_call.op = "get_best_paths"

\* The paths now in the cell the last query read.
LastPaths == CellAt(grid, last_call.cell[1], last_call.cell[2]).paths

\* The set of the elements of a sequence.
Range(seq) == {seq[i] : i \in 1..Len(seq)}

\* The best score among `paths` (non-empty): the least cost or the greatest
\* probability.
Extremal(paths, costs) ==
    CHOOSE s \in {p.score : p \in Range(paths)} :
        \A p \in Range(paths) : IF costs THEN s <= p.score ELSE s >= p.score

\* The legal deltas between consecutive cells of a path.
Deltas == {<<1, 0>>, <<1, 1>>, <<0, 1>>}

\* The delta of the i-th transition of a cell sequence.
Delta(cells, i) ==
    <<cells[i + 1][1] - cells[i][1], cells[i + 1][2] - cells[i][2]>>

\* The number of deletions and insertions of a cell sequence.
Indels(cells) ==
    Cardinality({i \in 1..(Len(cells) - 1) : Delta(cells, i) # <<1, 1>>})

\* The key pair of the transition of delta d that leaves (r, c), read from the
\* sequences themselves.
KeysOf(r, c, d) ==
    << IF d[1] = 1 THEN a[r + 1] ELSE NULL,
       IF d[2] = 1 THEN b[c + 1] ELSE NULL >>

\* Whether the transition of delta d out of (r, c) is allowed by the scoring.
Allowed(r, c, d) ==
    \/ alignment_scores = NoTable
    \/ LET k == KeysOf(r, c, d)
       IN  /\ k[1] \in DOMAIN alignment_scores[1]
           /\ k[2] \in DOMAIN alignment_scores[1][k[1]]

\* The score of the transition of delta d out of (r, c).
StepScore(r, c, d) ==
    IF alignment_scores = NoTable
    THEN (IF d = <<1, 1>> THEN DEFAULT_GOOD_SCORE ELSE DEFAULT_BAD_SCORE)
    ELSE LET k == KeysOf(r, c, d) IN alignment_scores[1][k[1]][k[2]]

\* Every sequence of at most n deltas.
DeltaSeqs(n) == UNION {[1..k -> Deltas] : k \in 0..n}

\* The cell sequence that the deltas ds trace from the origin.
RECURSIVE Walk(_)
Walk(ds) ==
    IF Len(ds) = 0 THEN << <<0, 0>> >>
    ELSE LET n    == Len(ds)
             head == Walk(SubSeq(ds, 1, n - 1))
             last == head[n]
         IN  Append(head, <<last[1] + ds[n][1], last[2] + ds[n][2]>>)

\* A cell sequence all of whose cells are in the grid of a and b and all of
\* whose transitions are allowed.
LegalWalk(cells) ==
    /\ \A i \in 1..Len(cells) : cells[i][1] <= Len(a) /\ cells[i][2] <= Len(b)
    /\ \A i \in 1..(Len(cells) - 1) :
          Allowed(cells[i][1], cells[i][2], Delta(cells, i))

\* Every legal move sequence from the origin, as a cell sequence.
LegalWalks ==
    {w \in {Walk(ds) : ds \in DeltaSeqs(Len(a) + Len(b))} : LegalWalk(w)}

\* count(i,j) = count(i-1,j) + count(i-1,j-1) + count(i,j-1), count(0,0) = 1.
RECURSIVE Count(_, _)
Count(i, j) ==
    IF i < 0 \/ j < 0 THEN 0
    ELSE IF i = 0 /\ j = 0 THEN 1
    ELSE Count(i - 1, j) + Count(i - 1, j - 1) + Count(i, j - 1)

\* The score of a cell sequence: the identity combined with the score of each
\* transition, in order.
RECURSIVE ScoreOf(_)
ScoreOf(cells) ==
    IF Len(cells) <= 1 THEN DEFAULT_GOOD_SCORE
    ELSE LET n == Len(cells)
         IN  ScoreOf(SubSeq(cells, 1, n - 1))
               + StepScore(cells[n - 1][1], cells[n - 1][2], Delta(cells, n - 1))

\* The non-null entries of a sequence, in order.
NonNull(seq) == SelectSeq(seq, LAMBDA x : x # NULL)

\* The k-th components of a sequence of pairs.
Column(pairs, k) == [i \in 1..Len(pairs) |-> pairs[i][k]]

\* The cells of the grid in row-major order.
RowMajor(g) ==
    LET cols == Len(g[1])
    IN  [k \in 1..(Len(g) * cols) |-> <<(k - 1) \div cols, (k - 1) % cols>>]

IsPrefix(s, t) == Len(s) <= Len(t) /\ s = SubSeq(t, 1, Len(s))

\* ----------------------------------------------------------------- claims

\* Whether `returned` holds exactly the paths of `paths` whose score is the
\* extremal score, each once, or is empty when `paths` is.
ExactlyTheBest(returned, paths, costs) ==
    IF paths = <<>> THEN returned = <<>>
    ELSE LET best == Extremal(paths, costs)
             tied == {i \in 1..Len(paths) : paths[i].score = best}
         IN  /\ Range(returned) = {paths[i] : i \in tied}
             /\ Len(returned) = Cardinality(tied)
             /\ \A p \in Range(returned) : p.score = best

\* C1: on the finished grid, get_best_paths() of any cell returns exactly the
\* cell's paths whose score is the extremal score of the cell (the least when
\* scores_are_costs, else the greatest), each tied path once and none that is
\* worse, and the empty list for a cell with no path; so does the list the
\* aligner's get_best_paths() has returned.
C1_BestPathsAreExtremal ==
    pc = "done" =>
        /\ \A rc \in Coords(grid) :
              LET paths == CellAt(grid, rc[1], rc[2]).paths
              IN  ExactlyTheBest(CellBestPaths(paths, scores_are_costs).returned,
                                 paths, scores_are_costs)
        /\ LastWasBest => ExactlyTheBest(result, LastPaths, scores_are_costs)

\* C1's case: a query that returns several tied paths and leaves worse ones.
C1_Witness ==
    /\ LastWasBest
    /\ Len(result) >= 2
    /\ Len(LastPaths) > Len(result)

\* C2: no query changes any cell's path list, the order of the list included.
C2_QueriesLeaveGridUnchanged ==
    [][pc = "done" => grid' = grid]_vars

\* C3: right after the one align(), each cell holds exactly the legal move
\* sequences from the origin to it, each once; under default scoring their
\* number is count(i,j), 3 at (1,1) and 13 at (2,2).
C3_PathsAreAllLegalWalks ==
    (pc = "done" /\ n_queries = 0) =>
        /\ LET walks == LegalWalks
           IN  \A rc \in Coords(grid) :
              LET paths == CellAt(grid, rc[1], rc[2]).paths
                  legal == {w \in walks : w[Len(w)] = rc}
              IN  /\ {PathCoordinates(grid, p) : p \in Range(paths)} = legal
                  /\ Len(paths) = Cardinality(legal)
                  /\ alignment_scores = NoTable => Len(paths) = Count(rc[1], rc[2])
        /\ alignment_scores = NoTable =>
              /\ <<1, 1>> \in Coords(grid) => Len(CellAt(grid, 1, 1).paths) = 3
              /\ <<2, 2>> \in Coords(grid) => Len(CellAt(grid, 2, 2).paths) = 13

\* C3's case: a finished default-scored grid for two sequences of length 2,
\* with 13 complete paths.
C3_Witness ==
    /\ pc = "done"
    /\ n_queries = 0
    /\ alignment_scores = NoTable
    /\ Len(a) = 2
    /\ Len(b) = 2
    /\ Len(CellAt(grid, 2, 2).paths) = 13

\* C4: in a visit, each move of each path of the visited cell whose
\* neighbour is in the grid appends its extension exactly when the table has
\* the move's key pair (always, without a table), whatever the other moves
\* do, and the sweep goes on; with the table {"a": {"a": 1}}, A = "a" and
\* B = "ab" the terminal cell ends with no path and both queries return the
\* empty list.
C4_MissingKeySkipsOneMove ==
    [][ /\ pc = "sweep" =>
            /\ pc' \in {"sweep", "done"}
            /\ \A p \in Range(CellAt(grid, row_idx, col_idx).paths) :
               \A d \in Deltas :
                  LET t   == <<row_idx + d[1], col_idx + d[2]>>
                      ext == Append(p.cells, t)
                  IN  t \in Coords(grid) =>
                        LET before == CellAt(grid, t[1], t[2]).paths
                            after  == CellAt(grid', t[1], t[2]).paths
                            n(ps)  == Cardinality({i \in 1..Len(ps) : ps[i].cells = ext})
                        IN  n(after) = n(before)
                                         + (IF Allowed(row_idx, col_idx, d) THEN 1 ELSE 0)
        /\ (pc' = "done" /\ a' = <<"a">> /\ b' = <<"a", "b">>
              /\ alignment_scores' = TableOnlyAA) =>
            /\ CellAt(grid', 1, 2).paths = <<>>
            /\ last_call'.op \in {"get_all_paths", "get_best_paths"} => result' = <<>>
      ]_vars

\* C4's case: the table {"a": {"a": 1}} with A = "a", B = "ab": the diagonal
\* out of the origin was taken, its two indels were skipped, and a query of
\* the terminal cell has returned.
C4_Witness ==
    /\ pc = "done"
    /\ a = <<"a">>
    /\ b = <<"a", "b">>
    /\ alignment_scores = TableOnlyAA
    /\ Len(CellAt(grid, 1, 1).paths) = 1
    /\ CellAt(grid, 1, 0).paths = <<>>
    /\ last_call.op = "get_best_paths"
    /\ result = <<>>

\* C5: under default scoring, for either value of scores_are_costs, when
\* get_best_paths() chooses among several paths of a cell, BAD is worse than
\* GOOD in the order it uses, and no returned path has more indel moves than
\* another path of the cell.
C5_BadIsWorseThanGood ==
    (LastWasBest /\ alignment_scores = NoTable /\ Len(LastPaths) >= 2) =>
        /\ IF scores_are_costs
             THEN DEFAULT_GOOD_SCORE < DEFAULT_BAD_SCORE
             ELSE DEFAULT_GOOD_SCORE > DEFAULT_BAD_SCORE
        /\ \A p \in Range(result) : \A q \in Range(LastPaths) :
              Indels(p.cells) <= Indels(q.cells)

\* C6: for sequences of equal length n, default scoring and
\* scores_are_costs = False, the aligner's get_best_paths() returns one path,
\* the diagonal (0,0),...,(n,n), whose elements are (A[0],B[0]),...,
\* (A[n-1],B[n-1]).
C6_EqualLengthBestIsDiagonal ==
    (/\ last_call.op = "get_best_paths"
     /\ alignment_scores = NoTable
     /\ ~scores_are_costs
     /\ Len(a) = Len(b)) =>
        /\ Len(result) = 1
        /\ PathCoordinates(grid, result[1]) = [i \in 1..(Len(a) + 1) |-> <<i - 1, i - 1>>]
        /\ PathElements(grid, result[1]) = [i \in 1..Len(a) |-> <<a[i], b[i]>>]

\* C6's case: A = "ab", B = "ab" queried under default scoring.
C6_Witness ==
    /\ last_call.op = "get_best_paths"
    /\ alignment_scores = NoTable
    /\ ~scores_are_costs
    /\ a = <<"a", "b">>
    /\ b = <<"a", "b">>
    /\ Len(result) = 1

C8_ElementsReconstructAlignment ==
    \A rc \in Coords(grid) :
        \A p \in Range(CellAt(grid, rc[1], rc[2]).paths) :
            LET els == PathElements(grid, p)
                cs  == PathCoordinates(grid, p)
            IN  /\ Len(els) = Len(cs) - 1
                /\ \A i \in 1..Len(els) :
                      LET r1 == cs[i][1] + 1
                          c1 == cs[i][2] + 1
                      IN  els[i] = CASE Delta(cs, i) = <<1, 1>> -> <<a[r1], b[c1]>>
                                     [] Delta(cs, i) = <<1, 0>> -> <<a[r1], NULL>>
                                     [] Delta(cs, i) = <<0, 1>> -> <<NULL, b[c1]>>
                /\ rc = LastCell(grid) =>
                      /\ NonNull(Column(els, 1)) = a
                      /\ NonNull(Column(els, 2)) = b

\* C8's case: a complete path that has a diagonal, a deletion and an
\* insertion.
C8_Witness ==
    /\ pc = "done"
    /\ \E p \in Range(CellAt(grid, LastCell(grid)[1], LastCell(grid)[2]).paths) :
          {Delta(p.cells, i) : i \in 1..(Len(p.cells) - 1)} = Deltas

\* C9: the sweep visits the cells in row-major order, each once, and a step
\* of the sweep changes no cell visited so far, the one it visits included.
C9_RowMajorAndVisitedFrozen ==
    [][pc = "sweep" =>
          /\ IsPrefix(visited', RowMajor(grid))
          /\ pc' = "done" => visited' = RowMajor(grid)
          /\ \A rc \in Range(visited') :
                CellAt(grid', rc[1], rc[2]) = CellAt(grid, rc[1], rc[2])
      ]_vars

\* C9's case: a sweep of a 3 x 3 grid that has visited all nine cells.
C9_Witness ==
    /\ pc = "done"
    /\ Len(visited) = 9
    /\ Len(grid) = 3

\* C10: every path's score is the identity GOOD combined by addition with the
\* score of each of its transitions (GOOD for a diagonal and BAD for an indel
\* by default, else the table's entry); a visit leaves the paths it extends
\* as they were; for A = "", B = "" the only path is the origin path with the
\* identity score.
C10_ScoreIsSumOfMoveScores ==
    [][ /\ \A rc \in Coords(grid') :
              \A p \in Range(CellAt(grid', rc[1], rc[2]).paths) :
                  p.score = ScoreOf(p.cells)
        /\ pc = "sweep" =>
              CellAt(grid', row_idx, col_idx).paths = CellAt(grid, row_idx, col_idx).paths
        /\ (pc' = "done" /\ a' = <<>> /\ b' = <<>>) =>
              /\ Coords(grid') = {<<0, 0>>}
              /\ CellAt(grid', 0, 0).paths =
                    << [cells |-> << <<0, 0>> >>, score |-> DEFAULT_GOOD_SCORE] >>
      ]_vars

\* C10's case: a table-scored complete path of two diagonals, "a" on "a"
\* then "b" on "b", with the sum of the two entries as its score.
C10_Witness ==
    /\ pc = "done"
    /\ alignment_scores = TablePartial
    /\ a = <<"a", "b">>
    /\ b = <<"a", "b">>
    /\ \E p \in Range(CellAt(grid, 2, 2).paths) :
          p.cells = << <<0, 0>>, <<1, 1>>, <<2, 2>> >> /\ p.score = 6

=============================================================================
